---- MODULE Spec2Model ----
(***************************************************************************)
(* A model of the news-feed pipeline: parse -> completeness filter ->      *)
(* quality gates and markup stripping -> keyword scoring -> topic          *)
(* assignment -> upsert by url, and of the topic query over the stored     *)
(* documents.                                                              *)
(*                                                                         *)
(* Text is a sequence of one-character strings, so that strip(), lower(),  *)
(* split(), the regular expressions and the UTF-8 length are computed      *)
(* character by character as the Python code computes them.  An optional   *)
(* value (a datetime that may be None) is a sequence of length 0 or 1.     *)
(***************************************************************************)
EXTENDS Integers, Sequences, FiniteSets, TLC

VARIABLES
    settings,    \* the object get_settings() returns
    pc,          \* position of the flow / of the function under study
    raw_data,    \* the provider's response: the sequence of raw items
    parsed,      \* parse_articles' result: ArticleEntry records
    df,          \* the DataFrame of process_data: a sequence of rows
    entries,     \* process_data's result
    store,       \* the "docs" collection, in insertion order
    runs,        \* flow runs started so far
    flow_error,  \* the exception the current run raised, or "none"
    scored,      \* the raw positions the classifier scored in this run
    handed,      \* what this run handed to store_articles: raw position, article
    written,     \* url -> the article store_articles wrote last for it
    caller,      \* who called process_data: the flow, or a direct caller
    refiltered,  \* the rows a second application of the filter returns
    requests,    \* the page requests of the classification: row and outcome
    topic_keywords, \* the dict TOPIC_KEYWORDS as loaded: its items, in order
    settings_attr,  \* get_settings.settings: 0 while unset, else the instance
    created,     \* the settings instances created so far
    thread,      \* the threads calling get_settings: position, locals, results
    _client,     \* connection._client: 0 for None, else the client
    _db,         \* connection._db: 0 for None, else the client it belongs to
    closed,      \* the clients that were closed
    instances,   \* the MongoDataPersistence objects: client, db, collection
    call         \* the last direct call of a function: arguments and result

vars == << settings, pc, raw_data, parsed, df, entries, store, runs,
           flow_error, scored, handed, written, caller, refiltered, requests,
           topic_keywords, settings_attr, created, thread, _client, _db,
           closed, instances, call >>

\* the state of the MongoDB connection
mongoVars == << _client, _db, closed, instances >>

\* the state of get_settings
getSettingsVars == << settings_attr, created, thread >>

----------------------------------------------------------------------------
(* Characters *)

LowerLetters == { "a", "b", "c", "d", "e", "f", "g", "h", "i", "j", "k", "l",
                  "m", "n", "o", "p", "q", "r", "s", "t", "u", "v", "w", "x",
                  "y", "z" }
UpperLetters == { "A", "I", "J", "H" }
Digits       == { "0", "1", "2", "3", "4", "5", "6", "7", "8", "9" }
\* "é" stands for a letter outside ASCII: two bytes in UTF-8, a word
\* character for Python's (Unicode) \w.
NonAscii     == { "é" }

\* str.lower() on one character
LowerChar(c) ==
    CASE c = "A" -> "a"
      [] c = "I" -> "i"
      [] c = "J" -> "j"
      [] c = "H" -> "h"
      [] OTHER   -> c

\* the regular expression class \w of a str pattern
IsWordChar(c) == c \in LowerLetters \cup UpperLetters \cup Digits \cup NonAscii \cup { "_" }

\* the characters str.strip() removes
IsWhitespace(c) == c = " "

\* bytes of one character in UTF-8
Utf8Bytes(c) == IF c \in NonAscii THEN 2 ELSE 1

DigitValue(c) ==
    CASE c = "0" -> 0 [] c = "1" -> 1 [] c = "2" -> 2 [] c = "3" -> 3
      [] c = "4" -> 4 [] c = "5" -> 5 [] c = "6" -> 6 [] c = "7" -> 7
      [] c = "8" -> 8 [] c = "9" -> 9

----------------------------------------------------------------------------
(* Strings *)

Slice(s, from, to) == SubSeq(s, from, to)

\* s[p .. p+Len(t)-1] = t
MatchesAt(s, t, p) ==
    /\ p >= 1
    /\ p + Len(t) - 1 <= Len(s)
    /\ \A k \in 1..Len(t) : s[p + k - 1] = t[k]

RECURSIVE StrLower(_)
\* str.lower()
StrLower(s) ==
    IF s = <<>> THEN <<>> ELSE << LowerChar(Head(s)) >> \o StrLower(Tail(s))

RECURSIVE LStrip(_)
LStrip(s) == IF s # <<>> /\ IsWhitespace(Head(s)) THEN LStrip(Tail(s)) ELSE s

RECURSIVE RStrip(_)
RStrip(s) ==
    IF s # <<>> /\ IsWhitespace(s[Len(s)]) THEN RStrip(Slice(s, 1, Len(s) - 1)) ELSE s

\* str.strip()
Strip(s) == RStrip(LStrip(s))

\* str.endswith(suffix)
EndsWith(s, suffix) == MatchesAt(s, suffix, Len(s) - Len(suffix) + 1)

RECURSIVE Utf8Len(_)
\* len(s.encode("utf-8"))
Utf8Len(s) == IF s = <<>> THEN 0 ELSE Utf8Bytes(Head(s)) + Utf8Len(Tail(s))

\* s.split(sep)[-1]: what follows the last occurrence of sep (all of s if none)
SplitLast(s, sep) ==
    LET hits == { p \in 1..Len(s) : MatchesAt(s, sep, p) }
    IN  IF hits = {} THEN s
        ELSE LET p == CHOOSE q \in hits : \A r \in hits : r <= q
             IN  Slice(s, p + Len(sep), Len(s))

\* s.split(sep)[0]: what precedes the first occurrence of sep (all of s if none)
SplitFirst(s, sep) ==
    LET hits == { p \in 1..Len(s) : MatchesAt(s, sep, p) }
    IN  IF hits = {} THEN s
        ELSE LET p == CHOOSE q \in hits : \A r \in hits : q <= r
             IN  Slice(s, 1, p - 1)

\* f"{a} {b}"
Join2(a, b) == a \o <<" ">> \o b

----------------------------------------------------------------------------
(* Scorer: _score_keywords *)

\* the pattern (?<!\w)term(?!\w) matches at position p of txt
BoundaryMatchAt(txt, term, p) ==
    /\ MatchesAt(txt, term, p)
    /\ ~ (p > 1 /\ IsWordChar(txt[p - 1]))
    /\ ~ (p + Len(term) <= Len(txt) /\ IsWordChar(txt[p + Len(term)]))

RECURSIVE FindAllFrom(_, _, _)
\* len(re.findall(pat, txt)) scanning from position p: leftmost match first,
\* the scan resumes after the end of each match
FindAllFrom(txt, term, p) ==
    IF p > Len(txt) - Len(term) + 1 THEN 0
    ELSE IF BoundaryMatchAt(txt, term, p)
         THEN 1 + FindAllFrom(txt, term, p + Len(term))
         ELSE FindAllFrom(txt, term, p + 1)

\* a mutant: the pattern without its lookarounds
FindAllNoBoundary(txt, term) ==
    Cardinality({ p \in 1..Len(txt) : MatchesAt(txt, term, p) })

FindAll(txt, term) == FindAllFrom(txt, term, 1)

RECURSIVE ScoreTermsFirstMatch(_, _)
\* a mutant: the loop ends with the first keyword found in the text
ScoreTermsFirstMatch(keywords, txt) ==
    IF keywords = <<>> THEN 0
    ELSE LET term  == Head(keywords)
             found == IF term = <<>> THEN 0 ELSE FindAll(txt, StrLower(term))
         IN  IF found > 0 THEN found
             ELSE ScoreTermsFirstMatch(Tail(keywords), txt)

RECURSIVE ScoreTerms(_, _)
ScoreTerms(keywords, txt) ==
    IF keywords = <<>> THEN 0
    ELSE LET term == Head(keywords)
         IN  (IF term = <<>> THEN 0 ELSE FindAll(txt, StrLower(term)))
             + ScoreTerms(Tail(keywords), txt)

_score_keywords(keywords, text) ==
    IF text = <<>> \/ keywords = <<>> THEN 0
    ELSE ScoreTerms(keywords, StrLower(text))

----------------------------------------------------------------------------
(* Topic dictionary *)

S_ai  == << "a", "i" >>
S_gpt == << "g", "p", "t" >>
S_seo == << "s", "e", "o" >>
S_lab == << "l", "a", "b" >>

\* Three topics of the dictionary, each with keywords taken from its list.
TOPIC_KEYWORDS ==
    [ ai        |-> << S_ai, S_gpt >>,
      marketing |-> << S_seo >>,
      science   |-> << S_lab >> ]

\* the items of TOPIC_KEYWORDS, in insertion order
LoadedDictionary ==
    << [ topic |-> "ai",        keywords |-> TOPIC_KEYWORDS.ai ],
       [ topic |-> "marketing", keywords |-> TOPIC_KEYWORDS.marketing ],
       [ topic |-> "science",   keywords |-> TOPIC_KEYWORDS.science ] >>

\* list(TOPIC_KEYWORDS.keys()): insertion order
get_topics == [ k \in 1..Len(topic_keywords) |-> topic_keywords[k].topic ]

\* TOPIC_KEYWORDS.get(topic, [])
get_keywords(topic) ==
    IF \E k \in 1..Len(topic_keywords) : topic_keywords[k].topic = topic
    THEN topic_keywords[CHOOSE k \in 1..Len(topic_keywords) :
                            topic_keywords[k].topic = topic].keywords
    ELSE <<>>

Range(s) == { s[k] : k \in 1..Len(s) }

----------------------------------------------------------------------------
(* Content size: NewsApiFetcher._get_content_size *)

\* the text is a decimal literal int() accepts once the sign is removed:
\* digits, with single underscores allowed between digits
IsIntLiteral(body) ==
    /\ body # <<>>
    /\ \A k \in 1..Len(body) : body[k] \in Digits \cup { "_" }
    /\ body[1] \in Digits
    /\ body[Len(body)] \in Digits
    /\ \A k \in 1..(Len(body) - 1) : ~ (body[k] = "_" /\ body[k + 1] = "_")

RECURSIVE DecimalValue(_, _)
DecimalValue(body, acc) ==
    IF body = <<>> THEN acc
    ELSE IF Head(body) = "_" THEN DecimalValue(Tail(body), acc)
         ELSE DecimalValue(Tail(body), 10 * acc + DigitValue(Head(body)))

\* int(tok): << n >>, or << >> when int() raises ValueError
ParseInt(tok) ==
    LET signed == tok # <<>> /\ tok[1] \in { "+", "-" }
        body   == IF signed THEN Tail(tok) ELSE tok
    IN  IF IsIntLiteral(body)
        THEN << (IF signed /\ tok[1] = "-" THEN -1 ELSE 1) * DecimalValue(body, 0) >>
        ELSE <<>>

\* the byte length alone, whatever the content ends with
_get_content_size_head_only(content_head) == Utf8Len(content_head)

_get_content_size(content_head) ==
    LET size == Utf8Len(content_head)
        tok  == SplitFirst(SplitLast(content_head, << "[", "+" >>), << " " >>)
        n    == ParseInt(tok)
    IN  IF EndsWith(content_head, << "]" >>) /\ n # <<>>
        THEN size + n[1]
        ELSE size

----------------------------------------------------------------------------
(* Article filter *)

RECURSIVE StripTagsFrom(_, _)
\* re.sub(r"<.*?>", "", s) from position p: a "<" is removed together with
\* everything up to the nearest ">" after it; a "<" with no ">" after it stays
StripTagsFrom(s, p) ==
    IF p > Len(s) THEN <<>>
    ELSE LET closers == { q \in (p + 1)..Len(s) : s[q] = ">" }
         IN  IF s[p] = "<" /\ closers # {}
             THEN StripTagsFrom(s, (CHOOSE q \in closers : \A r \in closers : q <= r) + 1)
             ELSE << s[p] >> \o StripTagsFrom(s, p + 1)

StripTags(s) == StripTagsFrom(s, 1)

\* series.str.strip() != ""
NotBlank(s) == Strip(s) # <<>>

\* a mutant: the description column is not checked
_remove_incomplete_articles_no_description(rows) ==
    LET complete(r) ==
            /\ r.published_at # <<>>
            /\ NotBlank(r.content_head)
            /\ NotBlank(r.title)
            /\ NotBlank(r.author)
            /\ NotBlank(r.url)
            /\ NotBlank(r.source)
    IN  SelectSeq(rows, complete)

_remove_incomplete_articles(rows) ==
    LET \* dropna(): published_at is the only column that can hold None
        notna(r)     == r.published_at # <<>>
        content_ok(r) == NotBlank(r.content_head)
        title_ok(r)   == NotBlank(r.title)
        author_ok(r)  == NotBlank(r.author)
        descr_ok(r)   == NotBlank(r.description)
        url_ok(r)     == NotBlank(r.url)
        source_ok(r)  == NotBlank(r.source)
    IN  SelectSeq(SelectSeq(SelectSeq(SelectSeq(SelectSeq(SelectSeq(SelectSeq(
            rows, notna), content_ok), title_ok), author_ok), descr_ok), url_ok),
            source_ok)

\* a mutant: the gates are skipped
_filter_articles_no_gates(rows, cfg) ==
    [ k \in 1..Len(rows) |->
        [ rows[k] EXCEPT !.content_head = StripTags(@),
                         !.description  = StripTags(@),
                         !.title        = StripTags(@) ] ]

\* a mutant: the title gate reads the title after markup is stripped
_filter_articles_strip_first(rows, cfg) ==
    LET size_ok(r)  == r.content_size >= cfg.min_content_size
        title_ok(r) == Len(StripTags(r.title)) >= cfg.min_title_size
        kept        == SelectSeq(SelectSeq(rows, size_ok), title_ok)
    IN  [ k \in 1..Len(kept) |->
            [ kept[k] EXCEPT !.content_head = StripTags(@),
                             !.description  = StripTags(@),
                             !.title        = StripTags(@) ] ]

_filter_articles(rows, cfg) ==
    LET size_ok(r)  == r.content_size >= cfg.min_content_size
        title_ok(r) == Len(r.title) >= cfg.min_title_size
        kept        == SelectSeq(SelectSeq(rows, size_ok), title_ok)
    IN  [ k \in 1..Len(kept) |->
            [ kept[k] EXCEPT !.content_head = StripTags(@),
                             !.description  = StripTags(@),
                             !.title        = StripTags(@) ] ]

----------------------------------------------------------------------------
(* Classifier *)

\* What _fetch_text_from_url returned: None (a RequestException was caught)
\* or the text of the page.
FetchNone     == [ ok |-> FALSE, text |-> <<>> ]
FetchText(t)  == [ ok |-> TRUE, text |-> t ]

\* a mutant: a page without text is not replaced by the fallback
_get_full_text_keep_empty(row, cfg, fetched) ==
    LET text == IF ~ cfg.get_full_text THEN FetchText(<<>>) ELSE fetched
    IN  IF ~ text.ok
        THEN Join2(Join2(row.title, row.description), row.content_head)
        ELSE text.text

\* _get_full_text(row); fetched is the outcome of the fetch of row["url"],
\* read only when settings.get_full_text is set
_get_full_text(row, cfg, fetched) ==
    LET text == IF ~ cfg.get_full_text THEN FetchText(<<>>) ELSE fetched
    IN  IF ~ text.ok \/ Len(Strip(text.text)) = 0
        THEN Join2(Join2(row.title, row.description), row.content_head)
        ELSE text.text

\* a mutant: the scores are computed on the full_text column alone
_classify_articles_title_once(rows, cfg, fetches) ==
    [ k \in 1..Len(rows) |->
        LET full_text == _get_full_text(rows[k], cfg, fetches[k])
        IN  [ author       |-> rows[k].author,
              title        |-> rows[k].title,
              description  |-> rows[k].description,
              url          |-> rows[k].url,
              published_at |-> rows[k].published_at,
              content_head |-> rows[k].content_head,
              content_size |-> rows[k].content_size,
              source       |-> rows[k].source,
              topics       |-> rows[k].topics,
              src          |-> rows[k].src,
              full_text    |-> full_text,
              scores       |-> [ t \in Range(get_topics) |->
                                   _score_keywords(get_keywords(t), full_text) ] ] ]

\* _classify_articles: the full_text column, then one score column per topic
_classify_articles(rows, cfg, fetches) ==
    [ k \in 1..Len(rows) |->
        LET full_text == _get_full_text(rows[k], cfg, fetches[k])
        IN  [ author       |-> rows[k].author,
              title        |-> rows[k].title,
              description  |-> rows[k].description,
              url          |-> rows[k].url,
              published_at |-> rows[k].published_at,
              content_head |-> rows[k].content_head,
              content_size |-> rows[k].content_size,
              source       |-> rows[k].source,
              topics       |-> rows[k].topics,
              src          |-> rows[k].src,
              full_text    |-> full_text,
              scores       |-> [ t \in Range(get_topics) |->
                                   _score_keywords(get_keywords(t),
                                                   Join2(rows[k].title, full_text)) ] ] ]

\* the topics a row is given
RowTopics(row, cfg) ==
    SelectSeq(get_topics,
              LAMBDA t : t \in DOMAIN row.scores /\ row.scores[t] >= cfg.score_threshold)

\* a mutant: a score equal to the threshold is not enough
RowTopicsStrict(row, cfg) ==
    SelectSeq(get_topics,
              LAMBDA t : t \in DOMAIN row.scores /\ row.scores[t] > cfg.score_threshold)

\* a mutant: the topics the input carried are kept
RowTopicsKeepInput(row, cfg) ==
    row.topics \o RowTopics(row, cfg)

\* a mutant: only a score equal to the threshold gives the topic
RowTopicsExactly(row, cfg) ==
    SelectSeq(get_topics,
              LAMBDA t : t \in DOMAIN row.scores /\ row.scores[t] = cfg.score_threshold)

AssignedTopics(row, cfg) == RowTopics(row, cfg)

\* a mutant: a row that is given no topic is left out
_df_to_article_entries_drop_untagged(rows, cfg) ==
    LET tagged == SelectSeq(rows, LAMBDA r : AssignedTopics(r, cfg) # <<>>)
    IN  [ k \in 1..Len(tagged) |->
            [ author       |-> tagged[k].author,
              title        |-> tagged[k].title,
              description  |-> tagged[k].description,
              url          |-> tagged[k].url,
              published_at |-> tagged[k].published_at,
              content_head |-> tagged[k].content_head,
              content_size |-> tagged[k].content_size,
              source       |-> tagged[k].source,
              topics       |-> AssignedTopics(tagged[k], cfg) ] ]

\* _df_to_article_entries: the ArticleEntry fields of each row, with topics
_df_to_article_entries(rows, cfg) ==
    [ k \in 1..Len(rows) |->
        [ author       |-> rows[k].author,
          title        |-> rows[k].title,
          description  |-> rows[k].description,
          url          |-> rows[k].url,
          published_at |-> rows[k].published_at,
          content_head |-> rows[k].content_head,
          content_size |-> rows[k].content_size,
          source       |-> rows[k].source,
          topics       |-> AssignedTopics(rows[k], cfg) ] ]

----------------------------------------------------------------------------
(* Persistence: MongoDataPersistence.store_articles *)

\* {"$set": document} applied to a stored document
SetFields(old, document) ==
    [ f \in DOMAIN old \cup DOMAIN document |->
        IF f \in DOMAIN document THEN document[f] ELSE old[f] ]

\* a mutant: insert_one instead of an upsert
insert_one(coll, document) == Append(coll, document)

\* update_one({"url": url}, {"$set": document}, upsert=True): the first
\* document with that url is updated; with none, the document is inserted
update_one(coll, document) ==
    LET hits == { k \in 1..Len(coll) : coll[k].url = document.url }
    IN  IF hits = {}
        THEN Append(coll, document)
        ELSE LET k == CHOOSE q \in hits : \A r \in hits : q <= r
             IN  [ coll EXCEPT ![k] = SetFields(@, document) ]

RECURSIVE store_articles(_, _)
store_articles(coll, articles) ==
    IF articles = <<>> THEN coll
    ELSE store_articles(update_one(coll, Head(articles)), Tail(articles))

\* The record of writes: for each url written so far, the article of the
\* last write with that url.
LastWritten(log, articles) ==
    LET urls    == { articles[k].url : k \in 1..Len(articles) }
        last(u) == articles[CHOOSE k \in 1..Len(articles) :
                               /\ articles[k].url = u
                               /\ \A j \in (k + 1)..Len(articles) : articles[j].url # u]
    IN  [ u \in DOMAIN log \cup urls |-> IF u \in urls THEN last(u) ELSE log[u] ]

----------------------------------------------------------------------------
(* Parsing: NewsApiFetcher.parse_articles *)

\* one item of the response as an ArticleEntry; a missing key is "" here
ParseItem(item) ==
    [ author       |-> item.author,
      title        |-> item.title,
      description  |-> item.description,
      url          |-> item.url,
      published_at |-> item.publishedAt,
      content_head |-> item.content,
      content_size |-> _get_content_size(item.content),
      source       |-> item.source,
      topics       |-> <<>> ]

parse_articles(items) == [ k \in 1..Len(items) |-> ParseItem(items[k]) ]

\* _raw_articles_to_df: one row per article; src is the row's position in
\* the input, kept to tell which article a row came from
_raw_articles_to_df(articles) ==
    [ k \in 1..Len(articles) |->
        [ author       |-> articles[k].author,
          title        |-> articles[k].title,
          description  |-> articles[k].description,
          url          |-> articles[k].url,
          published_at |-> articles[k].published_at,
          content_head |-> articles[k].content_head,
          content_size |-> articles[k].content_size,
          source       |-> articles[k].source,
          topics       |-> articles[k].topics,
          src          |-> k ] ]

\* the rows process_data hands to _classify_articles
FilteredRows(raw_articles, cfg) ==
    _filter_articles(_remove_incomplete_articles(_raw_articles_to_df(raw_articles)), cfg)

\* no page is fetched, or every fetch fails
NoFetches(raw_articles, cfg) ==
    [ k \in 1..Len(FilteredRows(raw_articles, cfg)) |-> FetchNone ]

\* process_data raises: _classify_articles is given a frame without rows
process_data_raises(raw_articles, cfg) ==
    raw_articles # <<>> /\ FilteredRows(raw_articles, cfg) = <<>>

\* process_data, when it returns; fetches[k] is the outcome of the fetch of
\* the k-th row that passed the filter
process_data(raw_articles, cfg, fetches) ==
    IF raw_articles = <<>> THEN <<>>
    ELSE _df_to_article_entries(
             _classify_articles(FilteredRows(raw_articles, cfg), cfg, fetches), cfg)

----------------------------------------------------------------------------
(* Settings: SystemConfiguration *)

MinContentSizeDefault == 1000
MinTitleSizeDefault   == 15
ScoreThresholdDefault == 2

DefaultSettings ==
    [ min_content_size |-> MinContentSizeDefault,
      min_title_size   |-> MinTitleSizeDefault,
      score_threshold  |-> ScoreThresholdDefault,
      get_full_text    |-> FALSE ]

\* the settings a deployment may load: the defaults, full-text fetching
\* switched on, a lower score threshold
SettingsChoices ==
    { DefaultSettings,
      [ DefaultSettings EXCEPT !.get_full_text = TRUE ],
      [ DefaultSettings EXCEPT !.score_threshold = ScoreThresholdDefault - 1 ] }

\* the settings of the deployments whose flow is followed over several runs
FlowSettings ==
    { DefaultSettings,
      [ DefaultSettings EXCEPT !.score_threshold = ScoreThresholdDefault - 1 ] }

----------------------------------------------------------------------------
(* Inputs of the flow *)

MaxBatch == 2   \* articles in one response
MaxRuns  == 2   \* runs of the flow and direct calls of process_data

S_today ==
    << "t", "o", "d", "a", "y", " ", "i", "n", " ", "t", "h", "e", " ",
       "n", "e", "w", "s" >>
S_ai_gpt == << "a", "i", " ", "g", "p", "t" >>
S_tagged_title ==
    << "<", "b", ">", "a", "i", "<", "/", "b", ">", " ", "l", "a", "b",
       " ", "a", "n", "d", " ", "s", "e", "o" >>
S_tagged_descr ==
    << "l", "a", "b", " ", "<", "i", ">", "x", "<", "/", "i", ">" >>
S_tagged_content == << "<", "p", ">", "s", "e", "o" >>
S_scenario_title ==
    << "A", "I", " ", "t", "r", "a", "n", "s", "f", "o", "r", "m", "s",
       " ", "m", "a", "r", "k", "e", "t", "i", "n", "g" >>
S_driven_title ==
    << "A", "I", "-", "d", "r", "i", "v", "e", "n", " ", "l", "a", "b",
       " ", "w", "o", "r", "k" >>
S_e_said == << "é", " ", "s", "a", "i", "d" >>
S_short_title == << "a", "i", " ", "n", "e", "w", "s" >>
S_seo_seo == << "s", "e", "o", " ", "s", "e", "o" >>
S_1200 == << "1", "2", "0", "0" >>
S_990 == << "9", "9", "0" >>

\* the provider's truncation marker "... [+N chars]"
TruncationMarker(n) ==
    << ".", ".", ".", " ", "[", "+" >> \o n \o << " ", "c", "h", "a", "r", "s", "]" >>

Item(author, title, description, url, publishedAt, content, source) ==
    [ author |-> author, title |-> title, description |-> description,
      url |-> url, publishedAt |-> publishedAt, content |-> content,
      source |-> source ]

\* The items the provider may return.
ItemPlain ==        \* complete; ai scores 2 and marketing 1 on the local text
    Item(<< "J" >>, S_today, S_seo, << "u", "1" >>, << 2 >>,
         S_ai_gpt \o TruncationMarker(S_1200), << "H" >>)
ItemTagged ==       \* same url as ItemPlain; markup in title, description, content
    Item(<< "J" >>, S_tagged_title, S_tagged_descr, << "u", "1" >>, << 3 >>,
         S_tagged_content \o TruncationMarker(S_990), << "H" >>)
ItemNoDescription == \* empty description
    Item(<< "J" >>, S_scenario_title, <<>>, << "u", "2" >>, << 2 >>,
         S_ai_gpt \o TruncationMarker(S_1200), << "H" >>)
ItemDriven ==       \* a letter outside ASCII in the content
    Item(<< "J" >>, S_driven_title, << "e" >>, << "u", "2" >>, << 1 >>,
         S_e_said \o TruncationMarker(S_1200), << "H" >>)
ItemShortTitle ==   \* title shorter than the gate
    Item(<< "J" >>, S_short_title, S_seo, << "u", "1" >>, << 1 >>,
         S_ai_gpt \o TruncationMarker(S_1200), << "H" >>)

Items == { ItemPlain, ItemTagged, ItemNoDescription, ItemDriven, ItemShortTitle }

SeqsUpTo(S, n) == UNION { [ 1..m -> S ] : m \in 0..n }

\* the responses _fetch_content may return
Responses == SeqsUpTo(Items, MaxBatch)

\* articles handed to process_data by a caller other than the flow: their
\* topics field is whatever the caller put there
DirectBatches ==
    { <<>>,
      << [ ParseItem(ItemPlain) EXCEPT !.topics = << "sports" >> ] >>,
      << [ ParseItem(ItemTagged) EXCEPT !.topics = << "sports", "ai" >> ],
         ParseItem(ItemShortTitle) >> }

\* what the fetch of one article's page may give
FetchOutcomes == { FetchNone, FetchText(<<>>), FetchText(S_seo_seo) }

----------------------------------------------------------------------------
(* The flow: news_pipeline_flow, and direct calls of process_data *)

NoCall == [ fn |-> "none" ]

Init ==
    /\ settings \in FlowSettings
    /\ pc = "idle"
    /\ raw_data = <<>>
    /\ parsed = <<>>
    /\ df = <<>>
    /\ entries = <<>>
    /\ store = <<>>
    /\ runs = 0
    /\ flow_error = "none"
    /\ scored = {}
    /\ requests = <<>>
    /\ topic_keywords = LoadedDictionary
    /\ settings_attr = 0
    /\ created = 0
    /\ thread = <<>>
    /\ _client = 0
    /\ _db = 0
    /\ closed = {}
    /\ instances = <<>>
    /\ handed = <<>>
    /\ written = <<>>
    /\ caller = "flow"
    /\ refiltered = <<>>
    /\ call = NoCall

\* fetch_news_data: the provider answers with a response
FetchNewsData ==
    /\ pc = "idle"
    /\ runs < MaxRuns
    /\ \E response \in Responses : raw_data' = response
    /\ pc' = "fetched"
    /\ caller' = "flow"
    /\ runs' = runs + 1
    /\ flow_error' = "none"
    /\ parsed' = <<>>
    /\ df' = <<>>
    /\ entries' = <<>>
    /\ scored' = {}
    /\ requests' = <<>>
    /\ handed' = <<>>
    /\ UNCHANGED << settings, store, written, refiltered, call, topic_keywords,
                    getSettingsVars, mongoVars >>

\* fetch_news_data: the provider answers with a status other than 200 and
\* _fetch_content raises; the flow logs and re-raises
FetchNewsDataFails ==
    /\ pc = "idle"
    /\ runs < MaxRuns
    /\ raw_data' = <<>>
    /\ pc' = "idle"
    /\ caller' = "flow"
    /\ runs' = runs + 1
    /\ flow_error' = "Exception"
    /\ parsed' = <<>>
    /\ df' = <<>>
    /\ entries' = <<>>
    /\ scored' = {}
    /\ requests' = <<>>
    /\ handed' = <<>>
    /\ UNCHANGED << settings, store, written, refiltered, call, topic_keywords,
                    getSettingsVars, mongoVars >>

\* parse_news_articles: parse_articles raises ValueError on an empty response
ParseArticles ==
    /\ pc = "fetched"
    /\ IF raw_data = <<>>
       THEN /\ flow_error' = "ValueError"
            /\ pc' = "idle"
            /\ parsed' = <<>>
       ELSE /\ parsed' = parse_articles(raw_data)
            /\ pc' = "parsed"
            /\ UNCHANGED flow_error
    /\ UNCHANGED << settings, raw_data, df, entries, store, runs, scored,
                    handed, written, caller, refiltered, call, requests,
                    topic_keywords, getSettingsVars, mongoVars >>

\* process_data called by a caller other than the flow
ProcessDataCall ==
    /\ pc = "idle"
    /\ runs < MaxRuns
    /\ \E articles \in DirectBatches : parsed' = articles
    /\ pc' = "parsed"
    /\ caller' = "direct"
    /\ runs' = runs + 1
    /\ flow_error' = "none"
    /\ raw_data' = <<>>
    /\ df' = <<>>
    /\ entries' = <<>>
    /\ scored' = {}
    /\ requests' = <<>>
    /\ handed' = <<>>
    /\ UNCHANGED << settings, store, written, refiltered, call, topic_keywords,
                    getSettingsVars, mongoVars >>

\* process_data: _raw_articles_to_df, and the early return on an empty frame
RawArticlesToDf ==
    /\ pc = "parsed"
    /\ df' = _raw_articles_to_df(parsed)
    /\ IF parsed = <<>>
       THEN /\ entries' = <<>>
            /\ pc' = "processed"
       ELSE /\ pc' = "df"
            /\ UNCHANGED entries
    /\ UNCHANGED << settings, raw_data, parsed, store, runs, flow_error,
                    scored, handed, written, caller,
                    refiltered, call, requests, topic_keywords,
                    getSettingsVars, mongoVars >>

RemoveIncompleteArticles ==
    /\ pc = "df"
    /\ df' = _remove_incomplete_articles(df)
    /\ pc' = "complete"
    /\ UNCHANGED << settings, raw_data, parsed, entries, store, runs,
                    flow_error, scored, handed, written, caller, refiltered, call,
                    requests, topic_keywords, getSettingsVars, mongoVars >>

FilterArticles ==
    /\ pc = "complete"
    /\ df' = _filter_articles(df, settings)
    /\ pc' = "filtered"
    /\ UNCHANGED << settings, raw_data, parsed, entries, store, runs,
                    flow_error, scored, handed, written, caller, refiltered, call,
                    requests, topic_keywords, getSettingsVars, mongoVars >>

\* _classify_articles; with get_full_text set, _get_full_text requests each
\* row's page once, in the order of the rows.
\* On a frame with no rows DataFrame.apply(..., axis=1) gives an empty
\* float64 Series, so the full_text column is not a string column and
\* articles_df["full_text"].str raises AttributeError ("Can only use .str
\* accessor with string values"): nothing catches it before the caller.
ClassifyArticles ==
    /\ pc = "filtered"
    /\ IF df = <<>>
       THEN /\ flow_error' = "AttributeError"
            /\ pc' = "idle"
            /\ UNCHANGED << df, scored, requests >>
       ELSE /\ \E fetches \in [ 1..Len(df) ->
                                 IF settings.get_full_text THEN FetchOutcomes
                                                           ELSE { FetchNone } ] :
                   /\ df' = _classify_articles(df, settings, fetches)
                   /\ requests' = IF settings.get_full_text
                                  THEN [ k \in 1..Len(df) |->
                                           [ src     |-> df[k].src,
                                             url     |-> df[k].url,
                                             outcome |-> fetches[k] ] ]
                                  ELSE <<>>
            /\ scored' = { df[k].src : k \in 1..Len(df) }
            /\ pc' = "classified"
            /\ UNCHANGED flow_error
    /\ UNCHANGED << settings, raw_data, parsed, entries, store, runs, handed,
                    written, caller, refiltered, call, topic_keywords,
                    getSettingsVars, mongoVars >>

DfToArticleEntries ==
    /\ pc = "classified"
    /\ entries' = _df_to_article_entries(df, settings)
    /\ pc' = "processed"
    /\ UNCHANGED << settings, raw_data, parsed, df, store, runs, flow_error,
                    scored, handed, written, caller,
                    refiltered, call, requests, topic_keywords,
                    getSettingsVars, mongoVars >>

\* store_articles_task: nothing is stored when the list is empty
StoreArticlesTask ==
    /\ pc = "processed"
    /\ caller = "flow"
    /\ IF entries # <<>>
       THEN /\ store' = store_articles(store, entries)
            /\ handed' = [ k \in 1..Len(entries) |->
                             [ src |-> df[k].src, article |-> entries[k] ] ]
            /\ written' = LastWritten(written, entries)
       ELSE UNCHANGED << store, handed, written >>
    /\ pc' = "idle"
    /\ UNCHANGED << settings, raw_data, parsed, df, entries, runs, flow_error,
                    scored, caller, refiltered, call, requests,
                    topic_keywords, getSettingsVars, mongoVars >>

\* process_data returns to its direct caller
ProcessDataReturn ==
    /\ pc = "processed"
    /\ caller = "direct"
    /\ pc' = "idle"
    /\ UNCHANGED << settings, raw_data, parsed, df, entries, store, runs,
                    flow_error, scored, handed, written, caller, refiltered, call,
                    requests, topic_keywords, getSettingsVars, mongoVars >>

Next ==
    \/ FetchNewsData
    \/ FetchNewsDataFails
    \/ ParseArticles
    \/ ProcessDataCall
    \/ RawArticlesToDf
    \/ RemoveIncompleteArticles
    \/ FilterArticles
    \/ ClassifyArticles
    \/ DfToArticleEntries
    \/ StoreArticlesTask
    \/ ProcessDataReturn

Spec == Init /\ [][Next]_vars

----------------------------------------------------------------------------
(* Properties of the flow *)

TopicNames == Range(get_topics)

\* C1: once process_data has built its result, a topic of the dictionary is
\* in an article's topics if and only if the score computed for that topic
\* on that article is at least the configured threshold.
C1_TopicIffScoreAtLeastThreshold ==
    pc = "processed" /\ parsed # <<>> =>
        /\ Len(entries) = Len(df)
        /\ \A k \in 1..Len(entries) : \A t \in TopicNames :
               t \in Range(entries[k].topics)
                   <=> df[k].scores[t] >= settings.score_threshold

\* ai scores 2 and marketing 1 under threshold 2: the article gets ai alone
C1_Witness ==
    /\ pc = "processed"
    /\ settings.score_threshold = 2
    /\ \E k \in 1..Len(entries) :
           /\ df[k].scores["ai"] = 2
           /\ df[k].scores["marketing"] = 1
           /\ entries[k].topics = << "ai" >>

\* an article is complete: no required text is empty or whitespace, and it
\* has a publication date
HasText(s) == \E k \in 1..Len(s) : ~ IsWhitespace(s[k])

IsComplete(a) ==
    /\ HasText(a.author) /\ HasText(a.title) /\ HasText(a.description)
    /\ HasText(a.url) /\ HasText(a.source) /\ HasText(a.content_head)
    /\ a.published_at # <<>>

PassesGates(a, cfg) ==
    /\ a.content_size >= cfg.min_content_size
    /\ Len(a.title) >= cfg.min_title_size

\* Only articles that pass the completeness check and the quality gates
\* are scored, and only scored articles are handed to store_articles.
OnlyFilteredArticlesScoredAndStored ==
    /\ \A i \in scored :
           /\ i \in 1..Len(parsed)
           /\ IsComplete(parsed[i])
           /\ PassesGates(parsed[i], settings)
    /\ \A k \in 1..Len(handed) : handed[k].src \in scored

\* C3: in a run of the flow an article that fails the completeness check or
\* a quality gate is neither scored nor handed to store_articles, and the
\* run raises no error once the response was parsed.
C3_DroppedArticlesNeitherScoredNorStoredNorAnError ==
    /\ OnlyFilteredArticlesScoredAndStored
    /\ caller = "flow" /\ parsed # <<>> => flow_error = "none"

\* C4: the topics of every article process_data returns, and of every
\* stored document, are topic names of the dictionary.
C4_TopicsWithinDictionary ==
    /\ \A k \in 1..Len(entries) : Range(entries[k].topics) \subseteq TopicNames
    /\ \A k \in 1..Len(store) : Range(store[k].topics) \subseteq TopicNames

\* process_data returned an article whose input carried a topic the
\* dictionary does not have, while the store holds documents
C4_Witness ==
    /\ pc = "processed"
    /\ store # <<>>
    /\ \E k \in 1..Len(entries) :
           /\ "sports" \in Range(parsed[df[k].src].topics)
           /\ entries[k].topics # <<>>

\* C5: the store holds exactly one document per url written, equal in every
\* field to the article written last with that url.
C5_OneDocumentPerUrlLastWriteWins ==
    /\ \A j, k \in 1..Len(store) : store[j].url = store[k].url => j = k
    /\ { store[k].url : k \in 1..Len(store) } = DOMAIN written
    /\ \A k \in 1..Len(store) : store[k] = written[store[k].url]

\* one batch wrote the same url twice with different articles, and the
\* store holds a document with another url
C5_Witness ==
    /\ pc = "idle"
    /\ Len(store) = 2
    /\ \E i, j \in 1..Len(handed) :
           /\ i < j
           /\ handed[i].article.url = handed[j].article.url
           /\ handed[i].article # handed[j].article

----------------------------------------------------------------------------
(* The article filter on its own: process_data called with one article *)

S_tagged_long_title ==
    << "<", "b", ">", "a", "i", "<", "/", "b", ">", " ", "l", "a", "b",
       " ", "a", "n", "d", " ", "s", "e", "o", " ", "n", "e", "w", "s" >>
S_only_tags_title ==
    << "<", "b", ">", "<", "/", "b", ">", "<", "i", ">", "<", "/", "i",
       ">", " ", "<", "p", ">" >>
S_only_tags == << "<", "p", ">", "<", "/", "p", ">" >>
\* 14 characters, 15 bytes in UTF-8
S_e_said_title ==
    << "é", " ", "s", "a", "i", "d", " ", "t", "h", "e", " ", "n", "e",
       "w" >>

FilterAuthors      == { <<>>, << " " >>, << "J" >> }
FilterTitles       == { <<>>, << " " >>, S_short_title, S_today, S_scenario_title,
                        S_tagged_title, S_tagged_long_title, S_only_tags_title,
                        S_e_said_title }
FilterDescriptions == { <<>>, << " " >>, S_seo, S_only_tags, S_tagged_descr }
FilterUrls         == { <<>>, << "u", "1" >> }
FilterSources      == { <<>>, << "H" >> }
FilterDates        == { <<>>, << 1 >> }
FilterContents     == { <<>>, << " " >>, S_ai_gpt, S_only_tags,
                        S_tagged_content \o TruncationMarker(S_1200) }

FilterArticlesPool ==
    { ParseItem(Item(a, t, d, u, p, c, s)) :
        a \in FilterAuthors, t \in FilterTitles, d \in FilterDescriptions,
        u \in FilterUrls, p \in FilterDates, c \in FilterContents,
        s \in FilterSources }

\* the defaults, and a deployment without a content-size gate
FilterSettings ==
    { DefaultSettings, [ DefaultSettings EXCEPT !.min_content_size = 0 ] }

InitFilter ==
    /\ settings \in FilterSettings
    /\ pc = "parsed"
    /\ raw_data = <<>>
    /\ \E a \in FilterArticlesPool : parsed = << a >>
    /\ df = <<>>
    /\ entries = <<>>
    /\ store = <<>>
    /\ runs = 0
    /\ flow_error = "none"
    /\ scored = {}
    /\ requests = <<>>
    /\ topic_keywords = LoadedDictionary
    /\ settings_attr = 0
    /\ created = 0
    /\ thread = <<>>
    /\ _client = 0
    /\ _db = 0
    /\ closed = {}
    /\ instances = <<>>
    /\ handed = <<>>
    /\ written = <<>>
    /\ caller = "direct"
    /\ refiltered = <<>>
    /\ call = NoCall

\* the filter applied once more to the rows it kept
FilterAgain ==
    /\ pc = "filtered"
    /\ refiltered' = _filter_articles(_remove_incomplete_articles(df), settings)
    /\ pc' = "refiltered"
    /\ UNCHANGED << settings, raw_data, parsed, df, entries, store, runs,
                    flow_error, scored, handed, written, caller, call,
                    requests, topic_keywords, getSettingsVars, mongoVars >>

NextFilter ==
    \/ RawArticlesToDf
    \/ RemoveIncompleteArticles
    \/ FilterArticles
    \/ FilterAgain

SpecFilter == InitFilter /\ [][NextFilter]_vars

\* C7: the completeness check keeps exactly the articles whose author,
\* title, description, url, source and content_head each hold a character
\* that is not whitespace and whose published_at is present, and keeps them
\* as they are.
C7_CompletenessKeepsExactlyCompleteArticles ==
    pc = "complete" =>
        /\ { df[k].src : k \in 1..Len(df) }
               = { i \in 1..Len(parsed) : IsComplete(parsed[i]) }
        /\ \A k \in 1..Len(df) : df[k] = _raw_articles_to_df(parsed)[df[k].src]

\* the titled article with an empty description is dropped
C7_Witness ==
    /\ pc = "complete"
    /\ df = <<>>
    /\ parsed[1].title = S_scenario_title
    /\ parsed[1].description = <<>>
    /\ HasText(parsed[1].author) /\ HasText(parsed[1].url)
    /\ HasText(parsed[1].source) /\ HasText(parsed[1].content_head)
    /\ parsed[1].published_at # <<>>

\* C6 as stated: the filter applied to the articles it kept returns the
\* same articles.
C6_FilterIdempotent ==
    pc = "refiltered" => refiltered = df

\* a kept row still passes the checks the filter makes on text it has
\* stripped of markup
PassesAgain(r, cfg) ==
    /\ HasText(r.title) /\ HasText(r.description) /\ HasText(r.content_head)
    /\ Len(r.title) >= cfg.min_title_size

\* C6 amended: the filter applied to the articles it kept drops those whose
\* stripped title is shorter than the title gate or whose stripped title,
\* description or content_head is blank, and returns every other article
\* unchanged.
C6_FilterAgainDropsOnlyWhatStrippingShortened ==
    pc = "refiltered" =>
        refiltered = SelectSeq(df, LAMBDA r : PassesAgain(r, settings))

\* an article that lost markup in the first application is returned
\* unchanged by the second
C6_Witness ==
    /\ pc = "refiltered"
    /\ df # <<>>
    /\ refiltered = df
    /\ df[1].title # parsed[1].title

\* C11: of the articles that passed the completeness check, the gates keep
\* exactly those whose content_size is at least min_content_size and whose
\* title, as it was before markup is stripped, has at least min_title_size
\* characters.
C11_GatesKeepExactlyLargeEnoughArticles ==
    pc = "filtered" =>
        { df[k].src : k \in 1..Len(df) }
            = { i \in 1..Len(parsed) :
                  /\ IsComplete(parsed[i])
                  /\ parsed[i].content_size >= settings.min_content_size
                  /\ Len(parsed[i].title) >= settings.min_title_size }

\* an article is kept whose title has the characters the gate asks for only
\* while it carries its markup
C11_Witness ==
    /\ pc = "filtered"
    /\ Len(df) = 1
    /\ Len(parsed[1].title) >= settings.min_title_size
    /\ Len(df[1].title) < settings.min_title_size
    /\ parsed[1].content_size >= settings.min_content_size
    /\ settings.min_content_size > 0

----------------------------------------------------------------------------
(* The scorer on its own: _score_keywords called with a keyword list and a text *)

MaxTextLen == 4   \* length of the texts enumerated in full

ScoreAlphabet == { "a", "i", "A", "I", "d", "1", "_", "-", " " }

S_said == << "s", "a", "i", "d" >>
S_fail == << "f", "a", "i", "l" >>
S_AI_driven == << "A", "I", "-", "d", "r", "i", "v", "e", "n" >>

S_ai_agent == << "a", "i", " ", "a", "g", "e", "n", "t" >>
S_AI_agent_ai == << "A", "I", " ", "a", "g", "e", "n", "t", " ", "a", "i" >>
S_a_a == << "a", " ", "a" >>
S_a_a_a_a == << "a", " ", "a", " ", "a", " ", "a" >>

ScoreTexts ==
    SeqsUpTo(ScoreAlphabet, MaxTextLen)
        \cup { S_said, S_fail, S_AI_driven, S_AI_agent_ai, S_a_a_a_a }

\* keyword lists: one entry, none, an entry that starts another, an entry
\* that overlaps itself, the same entry twice, an empty entry
ScoreKeywordLists ==
    { << S_ai >>, <<>>, << S_ai, S_ai_agent >>, << S_a_a >>,
      << << "A", "I" >>, S_ai >>, << <<>>, << "a" >> >> }

InitScore ==
    /\ settings = DefaultSettings
    /\ pc = "call"
    /\ raw_data = <<>>
    /\ parsed = <<>>
    /\ df = <<>>
    /\ entries = <<>>
    /\ store = <<>>
    /\ runs = 0
    /\ flow_error = "none"
    /\ scored = {}
    /\ requests = <<>>
    /\ topic_keywords = LoadedDictionary
    /\ settings_attr = 0
    /\ created = 0
    /\ thread = <<>>
    /\ _client = 0
    /\ _db = 0
    /\ closed = {}
    /\ instances = <<>>
    /\ handed = <<>>
    /\ written = <<>>
    /\ caller = "direct"
    /\ refiltered = <<>>
    /\ \E keywords \in ScoreKeywordLists, text \in ScoreTexts :
           call = [ fn |-> "_score_keywords", keywords |-> keywords,
                    text |-> text, returned |-> FALSE, ret |-> 0 ]

ScoreKeywords ==
    /\ pc = "call"
    /\ call.fn = "_score_keywords"
    /\ call' = [ call EXCEPT !.returned = TRUE,
                             !.ret = _score_keywords(call.keywords, call.text) ]
    /\ pc' = "returned"
    /\ UNCHANGED << settings, raw_data, parsed, df, entries, store, runs,
                    flow_error, scored, handed, written, caller, refiltered,
                    requests, topic_keywords, getSettingsVars, mongoVars >>

NextScore == ScoreKeywords

SpecScore == InitScore /\ [][NextScore]_vars

\* a letter, a digit or the underscore
IsLetterDigitUnderscore(c) ==
    \/ c \in LowerLetters \cup UpperLetters \cup NonAscii
    \/ c \in Digits
    \/ c = "_"

\* the places where "ai" stands in the text, in either case, with no
\* letter, digit or underscore right before or right after it
StandaloneAi(text) ==
    { p \in 1..(Len(text) - 1) :
        /\ text[p] \in { "a", "A" }
        /\ text[p + 1] \in { "i", "I" }
        /\ p > 1 => ~ IsLetterDigitUnderscore(text[p - 1])
        /\ p + 2 <= Len(text) => ~ IsLetterDigitUnderscore(text[p + 2]) }

\* C8: the score of a text for the keyword list ["ai"] is the number of
\* occurrences of "ai", in either case, that are neither preceded nor
\* followed by a letter, a digit or an underscore.
C8_AiCountedOnlyAsAWord ==
    call.fn = "_score_keywords" /\ call.returned /\ call.keywords = << S_ai >> =>
        call.ret = Cardinality(StandaloneAi(call.text))

\* "AI-driven" scores 1
C8_Witness ==
    /\ call.fn = "_score_keywords"
    /\ call.returned
    /\ call.keywords = << S_ai >>
    /\ call.text = S_AI_driven
    /\ call.ret = 1

\* two characters are the same letter in either case, or the same character
SameIgnoringCase(c, e) ==
    \/ c = e
    \/ { c, e } \in { { "a", "A" }, { "i", "I" }, { "j", "J" }, { "h", "H" } }

\* the places where the entry stands in the text, in either case, with no
\* letter, digit or underscore right before or right after it; an empty
\* entry stands nowhere
EntryPlaces(entry, text) ==
    IF entry = <<>> THEN {}
    ELSE { p \in 1..(Len(text) - Len(entry) + 1) :
             /\ \A k \in 1..Len(entry) : SameIgnoringCase(text[p + k - 1], entry[k])
             /\ p > 1 => ~ IsLetterDigitUnderscore(text[p - 1])
             /\ p + Len(entry) <= Len(text) =>
                    ~ IsLetterDigitUnderscore(text[p + Len(entry)]) }

\* the largest number of occurrences of the entry that do not overlap
NonOverlappingOccurrences(entry, text) ==
    LET apart(S) == \A p, q \in S : p < q => q - p >= Len(entry)
        sizes    == { Cardinality(S) : S \in { T \in SUBSET EntryPlaces(entry, text) :
                                                 apart(T) } }
    IN  CHOOSE n \in sizes : \A m \in sizes : m <= n

RECURSIVE SumOverEntries(_, _)
\* the sum of the occurrences over the entries of the list, one by one
SumOverEntries(keywords, text) ==
    IF keywords = <<>> THEN 0
    ELSE NonOverlappingOccurrences(keywords[Len(keywords)], text)
         + SumOverEntries(SubSeq(keywords, 1, Len(keywords) - 1), text)

\* C18: _score_keywords returns the sum, over the entries of the keyword
\* list one by one, of the number of occurrences of the entry in the text
\* that do not overlap, in either case and standing as words; it returns 0
\* for an empty text and for an empty list.
C18_ScoreIsSumOverEntries ==
    ( call.fn = "_score_keywords" /\ call.returned ) =>
        /\ call.ret = SumOverEntries(call.keywords, call.text)
        /\ ( call.text = <<>> \/ call.keywords = <<>> ) => call.ret = 0

\* "AI agent ai" scores 3 for the list ["ai", "ai agent"]
C18_Witness ==
    /\ call.fn = "_score_keywords"
    /\ call.returned
    /\ call.keywords = << S_ai, S_ai_agent >>
    /\ call.text = S_AI_agent_ai
    /\ call.ret = 3

----------------------------------------------------------------------------
(* The content size through parsing and process_data: one item whose    *)
(* content varies                                                       *)

S_hello == << "H", "e", "l", "l", "o", " ", "w", "o", "r", "l", "d" >>
S_5_a == << "5", " ", "a", " " >>
S_open_3 == << "[", "+", "3", " " >>
S_tag_ai == << "<", "b", ">", "a", "i", "<", "/", "b", ">" >>
S_note == << "[", "x", "]" >>
S_plus_5 == << "+", "5", " ", "]" >>
S_bracket_5 == << "[", "+", "5", "]" >>
S_bracket_5_sp == << "[", "+", "5", " ", "]" >>
S_chars_sp == << " ", "c", "h", "a", "r", "s", "]", " " >>

\* what precedes the end of the content
SizePrefixes == { <<>>, << "é" >>, S_hello, S_5_a, S_open_3, S_tag_ai }

\* the digit strings of well-formed markers
SizeDigits == { S_1200, S_990, << "5" >>, << "0", "7" >>, << "0" >> }

\* what stands between "[+" and " chars]" in a marker that is not well formed
SizeNotDigits == { <<>>, << "x" >>, << "-", "5" >>, << "+", "5" >>,
                   << "1", "_", "0" >>, << "1", "2", "k" >> }

\* how a content that has no well-formed marker at its end may end
SizeOtherEnds ==
    { <<>>, << "]" >>, S_note, S_plus_5, S_bracket_5, S_bracket_5_sp,
      << ".", ".", "." >>,
      << "[", "+", "5" >> \o S_chars_sp }
    \cup { TruncationMarker(n) : n \in SizeNotDigits }

SizeContents ==
    { p \o e : p \in SizePrefixes,
               e \in SizeOtherEnds \cup { TruncationMarker(n) : n \in SizeDigits } }

\* the defaults, and a deployment without a content-size gate
SizeSettings ==
    { DefaultSettings, [ DefaultSettings EXCEPT !.min_content_size = 0 ] }

InitSize ==
    /\ settings \in SizeSettings
    /\ pc = "fetched"
    /\ \E c \in SizeContents :
           raw_data = << Item(<< "J" >>, S_today, S_seo, << "u", "1" >>, << 1 >>,
                              c, << "H" >>) >>
    /\ parsed = <<>>
    /\ df = <<>>
    /\ entries = <<>>
    /\ store = <<>>
    /\ runs = 1
    /\ flow_error = "none"
    /\ scored = {}
    /\ requests = <<>>
    /\ topic_keywords = LoadedDictionary
    /\ settings_attr = 0
    /\ created = 0
    /\ thread = <<>>
    /\ _client = 0
    /\ _db = 0
    /\ closed = {}
    /\ instances = <<>>
    /\ handed = <<>>
    /\ written = <<>>
    /\ caller = "flow"
    /\ refiltered = <<>>
    /\ call = NoCall

NextSize ==
    \/ ParseArticles
    \/ RawArticlesToDf
    \/ RemoveIncompleteArticles
    \/ FilterArticles
    \/ ClassifyArticles
    \/ DfToArticleEntries

SpecSize == InitSize /\ [][NextSize]_vars

RECURSIVE DigitsValue(_)
\* the number a string of digits writes
DigitsValue(ds) ==
    IF ds = <<>> THEN 0
    ELSE 10 * DigitsValue(SubSeq(ds, 1, Len(ds) - 1)) + DigitValue(ds[Len(ds)])

MarkerTail == << " ", "c", "h", "a", "r", "s", "]" >>

\* the non-empty digit strings N such that the content ends with "[+N chars]"
MarkerDigits(content) ==
    { SubSeq(content, p + 2, Len(content) - Len(MarkerTail)) :
        p \in { q \in 1..(Len(content) - Len(MarkerTail) - 3) :
                  /\ content[q] = "[" /\ content[q + 1] = "+"
                  /\ EndsWith(content, MarkerTail)
                  /\ \A k \in (q + 2)..(Len(content) - Len(MarkerTail)) :
                         content[k] \in Digits } }

\* the digit strings N such that the content ends with "... [+N chars]"
FullMarkerDigits(content) ==
    { n \in MarkerDigits(content) : EndsWith(content, TruncationMarker(n)) }

\* the size the claim gives an article whose content is c
ClaimedSize(c) ==
    Utf8Len(c) + DigitsValue(CHOOSE n \in FullMarkerDigits(c) : TRUE)

\* C9: when the content ends with a marker "... [+N chars]", N a string of
\* digits, content_size is the UTF-8 length of the whole content as the
\* provider gave it plus N, in the parsed article, in every row of the frame
\* and in the article process_data returns.
C9_MarkerSizeAddedAndCarried ==
    /\ \A i \in 1..Len(parsed) :
           FullMarkerDigits(raw_data[i].content) # {} =>
               parsed[i].content_size = ClaimedSize(raw_data[i].content)
    /\ \A k \in 1..Len(df) :
           FullMarkerDigits(raw_data[df[k].src].content) # {} =>
               df[k].content_size = ClaimedSize(raw_data[df[k].src].content)
    /\ pc = "processed" =>
           \A k \in 1..Len(entries) :
               FullMarkerDigits(raw_data[df[k].src].content) # {} =>
                   entries[k].content_size = ClaimedSize(raw_data[df[k].src].content)

\* an article returned with its markup stripped and the size of the
\* content it arrived with, the bytes of the tags included
C9_Witness ==
    /\ pc = "processed"
    /\ Len(entries) = 1
    /\ raw_data[1].content = S_tag_ai \o TruncationMarker(S_1200)
    /\ entries[1].content_head = S_ai \o TruncationMarker(S_1200)
    /\ entries[1].content_size = 26 + 1200

\* C10: a content that does not end with a well-formed "[+digits chars]"
\* marker has a content_size equal to its UTF-8 length.
C10_NoMarkerSizeIsByteLength ==
    \A i \in 1..Len(parsed) :
        MarkerDigits(raw_data[i].content) = {} =>
            parsed[i].content_size = Utf8Len(raw_data[i].content)

----------------------------------------------------------------------------
(* Queries: MongoDataPersistence.get_matching_articles over the stored  *)
(* collection                                                           *)

MaxStored == 2
MaxDate == 2
MaxLimit == 2

\* the names of ArticleEntry's fields
ArticleEntryFields ==
    { "author", "title", "description", "url", "published_at", "content_head",
      "content_size", "source", "topics" }

\* ArticleEntry(**doc): the fields of the schema; what else the document
\* carries is ignored
ArticleEntry(doc) == [ f \in ArticleEntryFields |-> doc[f] ]

DateOf(doc) == doc.published_at[1]

\* the "published_at" condition of the query: {"$gte": from_date} and
\* {"$lte": to_date}, each only when the argument is given
DateFilter(from_date, to_date, doc) ==
    /\ from_date # <<>> => DateOf(doc) >= from_date[1]
    /\ to_date # <<>> => DateOf(doc) <= to_date[1]

\* a mutant: every listed value must be in the array ($all)
TopicsInAll(topics, doc) == Range(topics) \subseteq Range(doc.topics)

\* {"topics": {"$in": topics}} on an array field: some element of the array
\* is one of the listed values
TopicsIn(topics, doc) == Range(doc.topics) \cap Range(topics) # {}

\* collection.find(query) / {"$match": query}: the matching documents in
\* the order of the collection
Find(coll, from_date, to_date, topics) ==
    LET Matches(doc) ==
            /\ DateFilter(from_date, to_date, doc)
            /\ topics # <<>> => TopicsIn(topics, doc)
    IN  SelectSeq(coll, Matches)

\* {"$addFields": {"match_count": {"$size": {"$setIntersection": ["$topics", topics]}}}}
AddMatchCount(docs, topics) ==
    [ k \in 1..Len(docs) |->
        [ f \in DOMAIN docs[k] \cup { "match_count" } |->
            IF f = "match_count"
            THEN Cardinality(Range(docs[k].topics) \cap Range(topics))
            ELSE docs[k][f] ] ]

\* the sort keys of the two queries, most significant first; every key is
\* DESCENDING
ByMatchThenDate == << "match_count", "published_at" >>
ByDate == << "published_at" >>

\* the value a document is compared by under one key
KeyValue(doc, key) ==
    IF key = "published_at" THEN DateOf(doc) ELSE doc[key]

RECURSIVE MayPrecede(_, _, _)
\* document a may stand before document b in a descending sort by the keys
MayPrecede(a, b, keys) ==
    IF keys = <<>> THEN TRUE
    ELSE \/ KeyValue(a, Head(keys)) > KeyValue(b, Head(keys))
         \/ /\ KeyValue(a, Head(keys)) = KeyValue(b, Head(keys))
            /\ MayPrecede(a, b, Tail(keys))

\* the orders a sort may leave the documents in: documents equal under
\* every key come in any order
SortOrders(docs, keys) ==
    LET n     == Len(docs)
        perms == { p \in [ 1..n -> 1..n ] : \A i, j \in 1..n : p[i] = p[j] => i = j }
    IN  { [ k \in 1..n |-> docs[p[k]] ] :
            p \in { q \in perms :
                      \A k \in 1..(n - 1) : MayPrecede(docs[q[k]], docs[q[k + 1]], keys) } }

\* cursor.limit(limit) / {"$limit": limit}, applied only when limit > 0
Limited(docs, limit) ==
    IF limit > 0 /\ limit < Len(docs) THEN SubSeq(docs, 1, limit) ELSE docs

\* a mutant: the date before the match count
RankedSortKeysDateFirst == << "published_at", "match_count" >>

\* the sort key of the ranked query
RankedSortKeys == ByMatchThenDate

\* a mutant: the sort_by_match branch is taken before the topic list is
\* looked at, so that an empty list is matched with {"$in": []}
get_matching_articles_flag_first(coll, topics, from_date, to_date, sort_by_match, limit) ==
    LET found == Find(coll, from_date, to_date, topics)
        none  == SelectSeq(found, LAMBDA doc : TopicsIn(topics, doc))
        sorted ==
            IF sort_by_match
            THEN SortOrders(AddMatchCount(IF topics = <<>> THEN none ELSE found, topics),
                            RankedSortKeys)
            ELSE SortOrders(found, ByDate)
    IN  { [ k \in 1..Len(Limited(docs, limit)) |-> ArticleEntry(docs[k]) ] :
            docs \in sorted }

\* a mutant: the limit is applied to the documents found, before the sort
get_matching_articles_limit_first(coll, topics, from_date, to_date, sort_by_match, limit) ==
    LET found == Limited(Find(coll, from_date, to_date, topics), limit)
        sorted ==
            IF topics = <<>> THEN SortOrders(found, ByDate)
            ELSE IF sort_by_match
                 THEN SortOrders(AddMatchCount(found, topics), RankedSortKeys)
                 ELSE SortOrders(found, ByDate)
    IN  { [ k \in 1..Len(docs) |-> ArticleEntry(docs[k]) ] : docs \in sorted }

\* the lists get_matching_articles may return
get_matching_articles(coll, topics, from_date, to_date, sort_by_match, limit) ==
    LET found == Find(coll, from_date, to_date, topics)
        sorted ==
            IF topics = <<>> THEN SortOrders(found, ByDate)
            ELSE IF sort_by_match
                 THEN SortOrders(AddMatchCount(found, topics), RankedSortKeys)
                 ELSE SortOrders(found, ByDate)
    IN  { [ k \in 1..Len(Limited(docs, limit)) |-> ArticleEntry(docs[k]) ] :
            docs \in sorted }

\* the urls of the articles written to the collection
UrlDigits == << "1", "2", "3", "4", "5", "6", "7", "8", "9" >>
StoredUrls == { << "u", UrlDigits[k] >> : k \in 1..MaxStored }

StoredTopics == { <<>>, << "ai" >>, << "ai", "science" >> }

\* an article process_data may return: complete, dated, classified
StoredArticle(url, date, topics) ==
    [ author       |-> << "J" >>,
      title        |-> S_today,
      description  |-> S_seo,
      url          |-> url,
      published_at |-> << date >>,
      content_head |-> S_ai,
      content_size |-> 1200,
      source       |-> << "H" >>,
      topics       |-> topics ]

StoredArticles ==
    { StoredArticle(u, d, t) : u \in StoredUrls, d \in 1..MaxDate, t \in StoredTopics }

\* what the API passes as topics, from_date, to_date and limit
QueryTopics == { <<>>, << "ai", "science" >>, << "science", "sports" >> }
QueryFromDates == { <<>>, << MaxDate >> }
QueryToDates == { <<>>, << 1 >> }
QueryLimits == (0 - 1)..MaxLimit

InitQuery ==
    /\ settings = DefaultSettings
    /\ pc = "serving"
    /\ raw_data = <<>>
    /\ parsed = <<>>
    /\ df = <<>>
    /\ entries = <<>>
    /\ store = <<>>
    /\ runs = 0
    /\ flow_error = "none"
    /\ scored = {}
    /\ requests = <<>>
    /\ topic_keywords = LoadedDictionary
    /\ settings_attr = 0
    /\ created = 0
    /\ thread = <<>>
    /\ _client = 0
    /\ _db = 0
    /\ closed = {}
    /\ instances = <<>>
    /\ handed = <<>>
    /\ written = <<>>
    /\ caller = "api"
    /\ refiltered = <<>>
    /\ call = NoCall

\* store_articles called with one article
StoreArticles ==
    /\ pc = "serving"
    /\ call = NoCall
    /\ \E article \in StoredArticles :
           store' = store_articles(store, << article >>)
    /\ UNCHANGED << settings, pc, raw_data, parsed, df, entries, runs, flow_error,
                    scored, handed, written, caller, refiltered, call,
                    requests, topic_keywords, getSettingsVars, mongoVars >>

\* get_matching_articles called by api_get_news_by_topic
GetMatchingArticles ==
    /\ pc = "serving"
    /\ call = NoCall
    /\ \E topics \in QueryTopics, from_date \in QueryFromDates,
          to_date \in QueryToDates, sort_by_match \in BOOLEAN, limit \in QueryLimits :
           \E ret \in get_matching_articles(store, topics, from_date, to_date,
                                            sort_by_match, limit) :
               call' = [ fn            |-> "get_matching_articles",
                         topics        |-> topics,
                         from_date     |-> from_date,
                         to_date       |-> to_date,
                         sort_by_match |-> sort_by_match,
                         limit         |-> limit,
                         returned      |-> TRUE,
                         ret           |-> ret ]
    /\ UNCHANGED << settings, pc, raw_data, parsed, df, entries, store, runs,
                    flow_error, scored, handed, written, caller, refiltered,
                    requests, topic_keywords, getSettingsVars, mongoVars >>

\* api_get_news_by_topic returns the articles to the client
ApiReturn ==
    /\ pc = "serving"
    /\ call # NoCall
    /\ call' = NoCall
    /\ UNCHANGED << settings, pc, raw_data, parsed, df, entries, store, runs,
                    flow_error, scored, handed, written, caller, refiltered,
                    requests, topic_keywords, getSettingsVars, mongoVars >>

NextQuery ==
    \/ StoreArticles
    \/ GetMatchingArticles
    \/ ApiReturn

SpecQuery == InitQuery /\ [][NextQuery]_vars

\* the number of requested topics an article carries
RequestedTopicsCarried(article, requested) ==
    Cardinality({ t \in Range(requested) : \E k \in 1..Len(article.topics) :
                                               article.topics[k] = t })

\* C2: in the result of get_matching_articles with a non-empty topic list
\* and sort_by_match=True, an article a returned before an article b either
\* carries more of the requested topics than b, or as many and is not
\* older than b.
C2_RankedByMatchCountThenDate ==
    ( /\ call.fn = "get_matching_articles"
      /\ call.topics # <<>>
      /\ call.sort_by_match ) =>
        \A i, j \in 1..Len(call.ret) :
            i < j =>
                LET a == call.ret[i]
                    b == call.ret[j]
                    ma == RequestedTopicsCarried(a, call.topics)
                    mb == RequestedTopicsCarried(b, call.topics)
                IN  \/ ma > mb
                    \/ ma = mb /\ a.published_at[1] >= b.published_at[1]

\* requested ai and science: the article with both topics is returned
\* before the newer article with one
C2_Witness ==
    /\ call.fn = "get_matching_articles"
    /\ call.topics = << "ai", "science" >>
    /\ call.sort_by_match
    /\ Len(call.ret) = 2
    /\ call.ret[1].topics = << "ai", "science" >>
    /\ call.ret[2].topics = << "ai" >>
    /\ call.ret[1].published_at[1] < call.ret[2].published_at[1]

\* the stored articles whose date is within the bounds given
StoredWithin(from_date, to_date) ==
    { store[k] : k \in { q \in 1..Len(store) :
        /\ from_date = <<>> \/ from_date[1] <= store[q].published_at[1]
        /\ to_date = <<>> \/ store[q].published_at[1] <= to_date[1] } }

\* newest first
NewestFirst(articles) ==
    \A i, j \in 1..Len(articles) :
        i < j => articles[i].published_at[1] >= articles[j].published_at[1]

\* the list holds each of its articles once
NoRepeats(articles) ==
    \A i, j \in 1..Len(articles) : articles[i] = articles[j] => i = j

\* the list is the newest articles of the set, newest first: all of them
\* when limit <= 0, else as many as limit allows
NewestOf(articles, qualifying, limit) ==
    /\ NoRepeats(articles)
    /\ Range(articles) \subseteq qualifying
    /\ Len(articles) = IF limit > 0 /\ limit < Cardinality(qualifying)
                       THEN limit ELSE Cardinality(qualifying)
    /\ NewestFirst(articles)
    /\ \A a \in qualifying \ Range(articles) :
           \A k \in 1..Len(articles) :
               articles[k].published_at[1] >= a.published_at[1]

\* C12: with an empty topic list a result get_matching_articles returns
\* with sort_by_match set is a result it returns for the same collection,
\* date bounds and limit with sort_by_match unset, and the other way round;
\* the result holds the stored articles within the date bounds, whatever
\* their topics, newest first.
C12_EmptyTopicsIgnoresSortByMatch ==
    ( call.fn = "get_matching_articles" /\ call.topics = <<>> ) =>
        /\ call.ret \in get_matching_articles(store, <<>>, call.from_date,
                           call.to_date, ~ call.sort_by_match, call.limit)
        /\ NewestOf(call.ret, StoredWithin(call.from_date, call.to_date),
                    call.limit)

\* the flag set, no topics requested: an article without topics and an
\* older article with topics are returned, the newer one first
C12_Witness ==
    /\ call.fn = "get_matching_articles"
    /\ call.topics = <<>>
    /\ call.sort_by_match
    /\ Len(call.ret) = 2
    /\ call.ret[1].topics = <<>>
    /\ call.ret[2].topics = << "ai", "science" >>
    /\ call.ret[1].published_at[1] > call.ret[2].published_at[1]

\* the articles of the set that carry a requested topic
WithRequestedTopic(articles, requested) ==
    { a \in articles : \E i \in 1..Len(a.topics), j \in 1..Len(requested) :
                           a.topics[i] = requested[j] }

\* C13: with topics requested and sort_by_match unset, the result holds
\* only stored articles that carry a requested topic and whose date is
\* within the bounds given (a bound that is not given excludes nothing),
\* newest first, and without a limit it holds all of them.
C13_PlainFilterByTopicAndDate ==
    ( /\ call.fn = "get_matching_articles"
      /\ call.topics # <<>>
      /\ ~ call.sort_by_match ) =>
        LET qualifying ==
                WithRequestedTopic(StoredWithin(call.from_date, call.to_date),
                                   call.topics)
        IN  /\ Range(call.ret) \subseteq qualifying
            /\ NewestFirst(call.ret)
            /\ NoRepeats(call.ret)
            /\ call.limit <= 0 => Range(call.ret) = qualifying

\* science or sports requested from a date on, no limit: of two stored
\* articles the one returned carries one of the two topics and is dated on
\* the bound
C13_Witness ==
    /\ call.fn = "get_matching_articles"
    /\ call.topics = << "science", "sports" >>
    /\ ~ call.sort_by_match
    /\ call.limit <= 0
    /\ call.from_date # <<>> /\ call.to_date = <<>>
    /\ Len(store) = 2
    /\ Len(call.ret) = 1
    /\ call.ret[1].topics = << "ai", "science" >>
    /\ call.ret[1].published_at = call.from_date
    /\ \E k \in 1..Len(store) :
           store[k].topics = << "ai" >> /\ store[k].published_at = call.from_date

\* the articles a call asks for
Qualifying(c) ==
    IF c.topics = <<>>
    THEN StoredWithin(c.from_date, c.to_date)
    ELSE WithRequestedTopic(StoredWithin(c.from_date, c.to_date), c.topics)

\* article a stands no later than article b in the order of the call's
\* branch: by requested topics carried, then by date, in the ranked branch;
\* by date in the two others
NoLaterThan(a, b, c) ==
    IF c.topics # <<>> /\ c.sort_by_match
    THEN \/ RequestedTopicsCarried(a, c.topics) > RequestedTopicsCarried(b, c.topics)
         \/ /\ RequestedTopicsCarried(a, c.topics) = RequestedTopicsCarried(b, c.topics)
            /\ a.published_at[1] >= b.published_at[1]
    ELSE a.published_at[1] >= b.published_at[1]

\* C14: in each branch of get_matching_articles, with limit <= 0 the result
\* holds every qualifying article; with limit > 0 it holds min(limit, n) of
\* the n qualifying articles, in the branch's order, and no article left out
\* stands before a returned one in that order.
C14_LimitTruncatesAfterSorting ==
    call.fn = "get_matching_articles" =>
        LET n == Cardinality(Qualifying(call))
        IN  /\ NoRepeats(call.ret)
            /\ Range(call.ret) \subseteq Qualifying(call)
            /\ call.limit <= 0 => Len(call.ret) = n
            /\ call.limit > 0 =>
                   Len(call.ret) = IF call.limit < n THEN call.limit ELSE n
            /\ \A i, j \in 1..Len(call.ret) :
                   i < j => NoLaterThan(call.ret[i], call.ret[j], call)
            /\ \A a \in Qualifying(call) \ Range(call.ret) :
                   \A k \in 1..Len(call.ret) : NoLaterThan(call.ret[k], a, call)

\* limit 1 in the ranked branch: of two qualifying articles the one stored
\* last is returned, and it is the older one
C14_Witness ==
    /\ call.fn = "get_matching_articles"
    /\ call.topics = << "ai", "science" >>
    /\ call.sort_by_match
    /\ call.limit = 1
    /\ Len(store) = 2
    /\ Cardinality(Qualifying(call)) = 2
    /\ call.ret = << store[2] >>
    /\ store[2].published_at[1] < store[1].published_at[1]

----------------------------------------------------------------------------
(* The same articles classified under two thresholds *)

MaxThreshold == 3

Thresholds == 0..MaxThreshold

ThresholdSettings ==
    { [ DefaultSettings EXCEPT !.score_threshold = t ] : t \in Thresholds }

InitThreshold ==
    /\ settings \in ThresholdSettings
    /\ pc = "parsed"
    /\ raw_data = <<>>
    /\ \E r \in Responses \ { <<>> } : parsed = parse_articles(r)
    /\ df = <<>>
    /\ entries = <<>>
    /\ store = <<>>
    /\ runs = 0
    /\ flow_error = "none"
    /\ scored = {}
    /\ requests = <<>>
    /\ topic_keywords = LoadedDictionary
    /\ settings_attr = 0
    /\ created = 0
    /\ thread = <<>>
    /\ _client = 0
    /\ _db = 0
    /\ closed = {}
    /\ instances = <<>>
    /\ handed = <<>>
    /\ written = <<>>
    /\ caller = "direct"
    /\ refiltered = <<>>
    /\ call = NoCall

\* process_data called once more with the same articles, the settings
\* differing in score_threshold only
ProcessDataOtherThreshold ==
    /\ pc = "processed"
    /\ \E t \in Thresholds :
           LET cfg == [ settings EXCEPT !.score_threshold = t ]
           IN  call' = [ fn       |-> "process_data",
                         settings |-> cfg,
                         raised   |-> process_data_raises(parsed, cfg),
                         ret      |-> IF process_data_raises(parsed, cfg) THEN <<>>
                                      ELSE process_data(parsed, cfg,
                                                        NoFetches(parsed, cfg)) ]
    /\ pc' = "compared"
    /\ UNCHANGED << settings, raw_data, parsed, df, entries, store, runs,
                    flow_error, scored, handed, written, caller, refiltered,
                    requests, topic_keywords, getSettingsVars, mongoVars >>

NextThreshold ==
    \/ RawArticlesToDf
    \/ RemoveIncompleteArticles
    \/ FilterArticles
    \/ ClassifyArticles
    \/ DfToArticleEntries
    \/ ProcessDataOtherThreshold

SpecThreshold == InitThreshold /\ [][NextThreshold]_vars

\* C15: of two classifications of the same articles, the one under the
\* higher threshold gives each article a subset of the topics the other
\* gives it.
C15_HigherThresholdOnlyRemovesTopics ==
    pc = "compared" =>
        /\ ~ call.raised
        /\ Len(call.ret) = Len(entries)
        /\ \A k \in 1..Len(entries) :
               /\ call.ret[k].url = entries[k].url
               /\ settings.score_threshold <= call.settings.score_threshold =>
                      Range(call.ret[k].topics) \subseteq Range(entries[k].topics)
               /\ call.settings.score_threshold <= settings.score_threshold =>
                      Range(entries[k].topics) \subseteq Range(call.ret[k].topics)

\* under the higher threshold an article keeps one topic and loses another
C15_Witness ==
    /\ pc = "compared"
    /\ settings.score_threshold < call.settings.score_threshold
    /\ \E k \in 1..Len(entries) :
           /\ call.ret[k].topics # <<>>
           /\ Range(call.ret[k].topics) # Range(entries[k].topics)

----------------------------------------------------------------------------
(* Classification with the pages fetched: process_data with get_full_text *)
(* set, and the same articles classified once more with one fetch ending *)
(* differently                                                            *)

FetchSettings == { [ DefaultSettings EXCEPT !.get_full_text = TRUE ] }

InitFetch ==
    /\ settings \in FetchSettings
    /\ pc = "parsed"
    /\ raw_data = <<>>
    /\ \E r \in Responses \ { <<>> } : parsed = parse_articles(r)
    /\ df = <<>>
    /\ entries = <<>>
    /\ store = <<>>
    /\ runs = 0
    /\ flow_error = "none"
    /\ scored = {}
    /\ requests = <<>>
    /\ topic_keywords = LoadedDictionary
    /\ settings_attr = 0
    /\ created = 0
    /\ thread = <<>>
    /\ _client = 0
    /\ _db = 0
    /\ closed = {}
    /\ instances = <<>>
    /\ handed = <<>>
    /\ written = <<>>
    /\ caller = "direct"
    /\ refiltered = <<>>
    /\ call = NoCall

\* process_data called once more with the same articles and settings; the
\* fetch of one row ends differently, every other fetch as before
ProcessDataOtherFetch ==
    /\ pc = "processed"
    /\ \E i \in 1..Len(requests) :
           \E outcome \in FetchOutcomes \ { requests[i].outcome } :
               LET fetches == [ k \in 1..Len(requests) |->
                                  IF k = i THEN outcome ELSE requests[k].outcome ]
               IN  call' = [ fn      |-> "process_data",
                             changed |-> i,
                             outcome |-> outcome,
                             raised  |-> process_data_raises(parsed, settings),
                             ret     |-> process_data(parsed, settings, fetches) ]
    /\ pc' = "compared"
    /\ UNCHANGED << settings, raw_data, parsed, df, entries, store, runs,
                    flow_error, scored, handed, written, caller, refiltered,
                    requests, topic_keywords, getSettingsVars, mongoVars >>

NextFetch ==
    \/ RawArticlesToDf
    \/ RemoveIncompleteArticles
    \/ FilterArticles
    \/ ClassifyArticles
    \/ DfToArticleEntries
    \/ ProcessDataOtherFetch

SpecFetch == InitFetch /\ [][NextFetch]_vars

\* "<title> <description> <content_head>" of a row
FallbackText(row) ==
    row.title \o << " " >> \o row.description \o << " " >> \o row.content_head

\* the fetch gave nothing to score: it failed, or the page has no text
NothingFetched(outcome) ==
    ~ outcome.ok \/ \A k \in 1..Len(outcome.text) : IsWhitespace(outcome.text[k])

----------------------------------------------------------------------------
(* The flow and process_data with a dictionary that has no topics *)

InitEmptyDictionary ==
    /\ settings = DefaultSettings
    /\ pc = "idle"
    /\ raw_data = <<>>
    /\ parsed = <<>>
    /\ df = <<>>
    /\ entries = <<>>
    /\ store = <<>>
    /\ runs = 0
    /\ flow_error = "none"
    /\ scored = {}
    /\ requests = <<>>
    /\ topic_keywords = <<>>
    /\ settings_attr = 0
    /\ created = 0
    /\ thread = <<>>
    /\ _client = 0
    /\ _db = 0
    /\ closed = {}
    /\ instances = <<>>
    /\ handed = <<>>
    /\ written = <<>>
    /\ caller = "flow"
    /\ refiltered = <<>>
    /\ call = NoCall

SpecEmptyDictionary == InitEmptyDictionary /\ [][Next]_vars

\* C17: with a dictionary without topics, the classification of a batch
\* that is not empty ends in an error: process_data returns no article and
\* nothing is stored.
C17_EmptyDictionaryAbortsBatch ==
    get_topics = <<>> =>
        /\ entries = <<>>
        /\ store = <<>>
        /\ ( pc \in { "classified", "processed" } /\ df # <<>> ) =>
               flow_error # "none"

----------------------------------------------------------------------------
(* The frame of the classification *)

\* the fields of an article other than topics
FieldsKept ==
    { "author", "title", "description", "url", "published_at", "content_head",
      "content_size", "source" }

\* b carries the values of a in every field other than topics
SameButTopics(a, b) == \A f \in FieldsKept : b[f] = a[f]

\* C19: the classification gives one article for each article that passed
\* the filter, in the same order, also when the article gets no topic, and
\* changes no field of it other than topics: _classify_articles keeps the
\* rows and their fields, _df_to_article_entries returns one article per row
\* with the row's fields.
C19_ClassificationKeepsArticlesAndFields ==
    [][ /\ ( pc = "filtered" /\ pc' = "classified" ) =>
               /\ Len(df') = Len(df)
               /\ \A k \in 1..Len(df) : SameButTopics(df[k], df'[k])
        /\ ( pc = "classified" /\ pc' = "processed" ) =>
               /\ Len(entries') = Len(df)
               /\ \A k \in 1..Len(df) : SameButTopics(df[k], entries'[k]) ]_vars

\* two articles passed the filter and are returned, in the order they came
\* in, the first without a topic, the second with one
C19_Witness ==
    /\ pc = "processed"
    /\ Len(df) = 2
    /\ Len(entries) = 2
    /\ entries[1].topics = <<>>
    /\ entries[2].topics # <<>>
    /\ entries[1].url # entries[2].url

\* ---------------------------------------------------------------------
\* get_settings, statement by statement, called from several threads
\* ---------------------------------------------------------------------

\* the threads that call get_settings, and the calls each of them makes
MaxThreads == 2
MaxCalls == 2
Threads == 1..MaxThreads

\* a thread outside get_settings that has made no call yet
IdleThread == [ pc |-> "idle", local |-> 0, from_block |-> FALSE,
                calls |-> 0, returned |-> <<>>, raised |-> 0 ]

InitSettings ==
    /\ settings = DefaultSettings
    /\ pc = "configuring"
    /\ raw_data = <<>>
    /\ parsed = <<>>
    /\ df = <<>>
    /\ entries = <<>>
    /\ store = <<>>
    /\ runs = 0
    /\ flow_error = "none"
    /\ scored = {}
    /\ handed = {}
    /\ written = {}
    /\ caller = "direct"
    /\ refiltered = <<>>
    /\ requests = <<>>
    /\ topic_keywords = LoadedDictionary
    /\ settings_attr = 0
    /\ created = 0
    /\ thread = [ t \in Threads |-> IdleThread ]
    /\ _client = 0
    /\ _db = 0
    /\ closed = {}
    /\ instances = <<>>
    /\ call = NoCall

flowVars == << settings, pc, raw_data, parsed, df, entries, store, runs,
               flow_error, scored, handed, written, caller, refiltered,
               requests, topic_keywords, mongoVars, call >>

\* if not hasattr(get_settings, "settings"):
HasAttrTest(t) ==
    /\ pc = "configuring"
    /\ thread[t].pc = "idle"
    /\ thread[t].calls < MaxCalls
    /\ thread' = [ thread EXCEPT ![t].pc =
                       IF settings_attr = 0 THEN "load" ELSE "return" ]
    /\ UNCHANGED << settings_attr, created, flowVars >>

\* BlockSettings.load("system-settings"), or LocalSettings() when it raises:
\* one settings instance is created on either path
LoadSettings(t) ==
    /\ thread[t].pc = "load"
    /\ \E found \in BOOLEAN :
           thread' = [ thread EXCEPT ![t].pc = "assign",
                                     ![t].local = created + 1,
                                     ![t].from_block = found ]
    /\ created' = created + 1
    /\ UNCHANGED << settings_attr, flowVars >>

\* get_settings.settings = ...
AssignSettings(t) ==
    /\ thread[t].pc = "assign"
    /\ settings_attr' = thread[t].local
    /\ thread' = [ thread EXCEPT ![t].pc =
                       IF thread[t].from_block THEN "return" ELSE "save" ]
    /\ UNCHANGED << created, flowVars >>

\* block_settings.save("system-settings", overwrite=True): it may raise,
\* and the exception leaves get_settings
SaveBlock(t) ==
    /\ thread[t].pc = "save"
    /\ \E saved \in BOOLEAN :
           thread' = [ thread EXCEPT
               ![t].pc = IF saved THEN "return" ELSE "idle",
               ![t].calls = IF saved THEN @ ELSE @ + 1,
               ![t].raised = IF saved THEN @ ELSE @ + 1 ]
    /\ UNCHANGED << settings_attr, created, flowVars >>

\* return get_settings.settings
ReturnSettings(t) ==
    /\ thread[t].pc = "return"
    /\ thread' = [ thread EXCEPT
           ![t].pc = "idle",
           ![t].calls = @ + 1,
           ![t].returned = Append(@, settings_attr) ]
    /\ UNCHANGED << settings_attr, created, flowVars >>

NextSettings ==
    \E t \in Threads :
        \/ HasAttrTest(t)
        \/ LoadSettings(t)
        \/ AssignSettings(t)
        \/ SaveBlock(t)
        \/ ReturnSettings(t)

SpecSettings == InitSettings /\ [][NextSettings]_vars

\* the instances the calls made so far have returned
ReturnedInstances ==
    UNION { { thread[t].returned[k] : k \in 1..Len(thread[t].returned) } :
                t \in DOMAIN thread }

\* C20: over any interleaving of get_settings calls, concurrent first
\* calls from several threads included, the settings object is created
\* at most once and every call returns that one instance.
C20_SettingsCreatedAtMostOnce ==
    /\ created <= 1
    /\ Cardinality(ReturnedInstances) <= 1

----------------------------------------------------------------------------
(* The text the topics are scored on: the title, then the full_text column *)

S_machine_learning ==
    << "m", "a", "c", "h", "i", "n", "e", " ", "l", "e", "a", "r", "n",
       "i", "n", "g" >>
S_learning_machine ==
    << "l", "e", "a", "r", "n", "i", "n", "g", " ", "m", "a", "c", "h",
       "i", "n", "e" >>
S_learning == << "l", "e", "a", "r", "n", "i", "n", "g" >>

\* the dictionary with a keyword of several words: "machine learning" is
\* in the list of "ai"
PhraseDictionary ==
    << [ topic |-> "ai",        keywords |-> << S_ai, S_machine_learning >> ],
       [ topic |-> "marketing", keywords |-> TOPIC_KEYWORDS.marketing ],
       [ topic |-> "science",   keywords |-> TOPIC_KEYWORDS.science ] >>

ItemTitleKeyword ==  \* one keyword, in the title only
    Item(<< "J" >>, S_scenario_title, << "e" >>, << "u", "1" >>, << 2 >>,
         S_e_said \o TruncationMarker(S_1200), << "H" >>)
ItemPhraseSplit ==   \* the words of "machine learning" on both sides of a join
    Item(<< "J" >>, S_learning_machine, S_learning, << "u", "2" >>, << 1 >>,
         S_e_said \o TruncationMarker(S_1200), << "H" >>)
ItemPhraseTitle ==   \* "machine learning" as the title
    Item(<< "J" >>, S_machine_learning, S_lab, << "u", "3" >>, << 3 >>,
         S_seo \o TruncationMarker(S_1200), << "H" >>)

TitleItems == { ItemPlain, ItemTitleKeyword, ItemPhraseSplit, ItemPhraseTitle }

TitleSettings ==
    { DefaultSettings, [ DefaultSettings EXCEPT !.get_full_text = TRUE ] }

InitTitle ==
    /\ settings \in TitleSettings
    /\ pc = "parsed"
    /\ raw_data = <<>>
    /\ \E r \in SeqsUpTo(TitleItems, MaxBatch) \ { <<>> } :
           parsed = parse_articles(r)
    /\ df = <<>>
    /\ entries = <<>>
    /\ store = <<>>
    /\ runs = 0
    /\ flow_error = "none"
    /\ scored = {}
    /\ requests = <<>>
    /\ topic_keywords = PhraseDictionary
    /\ settings_attr = 0
    /\ created = 0
    /\ thread = <<>>
    /\ _client = 0
    /\ _db = 0
    /\ closed = {}
    /\ instances = <<>>
    /\ handed = <<>>
    /\ written = <<>>
    /\ caller = "direct"
    /\ refiltered = <<>>
    /\ call = NoCall

NextTitle ==
    \/ RawArticlesToDf
    \/ RemoveIncompleteArticles
    \/ FilterArticles
    \/ ClassifyArticles
    \/ DfToArticleEntries

SpecTitle == InitTitle /\ [][NextTitle]_vars

\* "<title> <title> <description> <content_head>" of a row
TitleTwiceText(row) ==
    row.title \o << " " >> \o row.title \o << " " >> \o row.description
        \o << " " >> \o row.content_head

\* the row is scored on the local text: nothing is fetched, or the fetch
\* gave nothing
ScoredOnLocalText(k) ==
    \/ ~ settings.get_full_text
    \/ /\ k \in 1..Len(requests)
       /\ NothingFetched(requests[k].outcome)

\* no keyword of the list holds a space
SingleWords(keywords) ==
    \A i \in 1..Len(keywords) :
        \A j \in 1..Len(keywords[i]) : keywords[i][j] # " "

\* C21: when full-text fetching is disabled or falls back, each topic is
\* scored on "<title> <title> <description> <content_head>": an occurrence
\* of a keyword in the title counts 2 and one in the description or the
\* content head counts 1 (exactly so for keywords of one word), and a
\* single keyword in the title is enough for the topic at threshold 2.
C21_TitleCountedTwice ==
    ( pc \in { "classified", "processed" } /\ df # <<>> ) =>
        \A k \in 1..Len(df) :
            ScoredOnLocalText(k) =>
                \A t \in TopicNames :
                    LET kw       == get_keywords(t)
                        in_title == _score_keywords(kw, df[k].title)
                        in_descr == _score_keywords(kw, df[k].description)
                        in_head  == _score_keywords(kw, df[k].content_head)
                    IN  /\ df[k].scores[t] =
                               _score_keywords(kw, TitleTwiceText(df[k]))
                        /\ df[k].scores[t] >= 2 * in_title + in_descr + in_head
                        /\ SingleWords(kw) =>
                               df[k].scores[t] = 2 * in_title + in_descr + in_head
                        /\ ( in_title >= 1 /\ settings.score_threshold <= 2
                                /\ pc = "processed" ) =>
                               t \in Range(entries[k].topics)

\* an article whose only keyword is "AI" in the title is given the topic
\* ai with score 2, once with fetching disabled and once after a failed
\* fetch
C21_Witness ==
    /\ pc = "processed"
    /\ Len(df) = 2
    /\ df[1].title = S_scenario_title
    /\ ScoredOnLocalText(1)
    /\ _score_keywords(get_keywords("ai"), df[1].title) = 1
    /\ _score_keywords(get_keywords("ai"), df[1].description) = 0
    /\ _score_keywords(get_keywords("ai"), df[1].content_head) = 0
    /\ df[1].scores["ai"] = 2
    /\ entries[1].topics = << "ai" >>
    /\ df[2].title = S_learning_machine
    /\ ScoredOnLocalText(2)
    /\ df[2].scores["ai"] = 2

----------------------------------------------------------------------------
(* The MongoDB connection: connect_to_mongo, close_mongo_connection and *)
(* the MongoDataPersistence objects                                     *)

MaxClients == 2     \* MongoClient objects created
MaxInstances == 2   \* MongoDataPersistence objects constructed

\* the variables the connection does not touch
pipelineVars == << settings, pc, raw_data, parsed, df, entries, runs,
                   flow_error, scored, handed, written, caller, refiltered,
                   requests, topic_keywords, getSettingsVars >>

InitMongo ==
    /\ settings = DefaultSettings
    /\ pc = "connection"
    /\ raw_data = <<>>
    /\ parsed = <<>>
    /\ df = <<>>
    /\ entries = <<>>
    /\ store = <<>>
    /\ runs = 0
    /\ flow_error = "none"
    /\ scored = {}
    /\ handed = {}
    /\ written = {}
    /\ caller = "direct"
    /\ refiltered = <<>>
    /\ requests = <<>>
    /\ topic_keywords = LoadedDictionary
    /\ settings_attr = 0
    /\ created = 0
    /\ thread = <<>>
    /\ _client = 0
    /\ _db = 0
    /\ closed = {}
    /\ instances = <<>>
    /\ call = NoCall

\* MongoClient(settings.mongo_uri): a client that did not exist before
NewClient == Cardinality(closed) + 1

\* the module state after connect_to_mongo(): _client and _db
connect_to_mongo ==
    IF _client = 0
    THEN [ client |-> NewClient, db |-> NewClient ]
    ELSE [ client |-> _client, db |-> _db ]

ConnectToMongo ==
    /\ pc = "connection"
    /\ _client = 0 => Cardinality(closed) < MaxClients
    /\ _client' = connect_to_mongo.client
    /\ _db' = connect_to_mongo.db
    /\ UNCHANGED << closed, instances, store, call, pipelineVars >>

CloseMongoConnection ==
    /\ pc = "connection"
    /\ IF _client # 0
       THEN /\ closed' = closed \cup { _client }
            /\ _client' = 0
            /\ _db' = 0
       ELSE UNCHANGED << _client, _db, closed >>
    /\ UNCHANGED << instances, store, call, pipelineVars >>

\* MongoDataPersistence(): connect_to_mongo(), then the client, the db and
\* the collection "docs" of the db are kept in the object
NewMongoDataPersistence ==
    /\ pc = "connection"
    /\ Len(instances) < MaxInstances
    /\ _client = 0 => Cardinality(closed) < MaxClients
    /\ _client' = connect_to_mongo.client
    /\ _db' = connect_to_mongo.db
    /\ instances' = Append(instances,
                           [ client     |-> connect_to_mongo.client,
                             db         |-> connect_to_mongo.db,
                             collection |-> connect_to_mongo.db ])
    /\ UNCHANGED << closed, store, call, pipelineVars >>

\* self._ensure_connection(): whether it raised RuntimeError, and the object
\* after it
_ensure_connection(self) ==
    IF self.db = 0
    THEN IF _db = 0
         THEN [ raised |-> TRUE,  self |-> self ]
         ELSE [ raised |-> FALSE,
                self   |-> [ self EXCEPT !.db = _db, !.collection = _db ] ]
    ELSE [ raised |-> FALSE, self |-> self ]

\* what a call of store_articles or get_matching_articles did: the module's
\* client when it was made, whether _ensure_connection raised, the
\* collection handle it went on with, and the error of the call
MongoCall(fn, i, ensured, error) ==
    [ fn         |-> fn,
      instance   |-> i,
      current    |-> _client,
      was_closed |-> closed,
      raised     |-> ensured.raised,
      db         |-> ensured.self.db,
      collection |-> ensured.self.collection,
      error      |-> error ]

\* the errors of an operation on a collection: none on an open client; on
\* a closed client pymongo raises InvalidOperation or opens the client
\* again, depending on its version
OperationErrors(collection) ==
    IF collection \in closed THEN { "none", "InvalidOperation" } ELSE { "none" }

\* store_articles of one object, with one article
StoreArticlesOn(i) ==
    /\ pc = "connection"
    /\ LET ensured == _ensure_connection(instances[i])
       IN  /\ instances' = [ instances EXCEPT ![i] = ensured.self ]
           /\ IF ensured.raised
              THEN /\ call' = MongoCall("store_articles", i, ensured, "RuntimeError")
                   /\ UNCHANGED store
              ELSE \E error \in OperationErrors(ensured.self.collection) :
                       /\ call' = MongoCall("store_articles", i, ensured, error)
                       /\ store' = IF error = "none"
                                   THEN store_articles(store,
                                            << StoredArticle(<< "u", "1" >>, 1, << "ai" >>) >>)
                                   ELSE store
    /\ UNCHANGED << _client, _db, closed, pipelineVars >>

\* get_matching_articles of one object, with no topic, date or limit
GetMatchingArticlesOn(i) ==
    /\ pc = "connection"
    /\ LET ensured == _ensure_connection(instances[i])
       IN  /\ instances' = [ instances EXCEPT ![i] = ensured.self ]
           /\ IF ensured.raised
              THEN call' = MongoCall("get_matching_articles", i, ensured, "RuntimeError")
              ELSE \E error \in OperationErrors(ensured.self.collection) :
                       call' = MongoCall("get_matching_articles", i, ensured, error)
    /\ UNCHANGED << _client, _db, closed, store, pipelineVars >>

NextMongo ==
    \/ ConnectToMongo
    \/ CloseMongoConnection
    \/ NewMongoDataPersistence
    \/ \E i \in 1..Len(instances) : StoreArticlesOn(i)
    \/ \E i \in 1..Len(instances) : GetMatchingArticlesOn(i)

SpecMongo == InitMongo /\ [][NextMongo]_vars

\* C22: the module state has _client None exactly when _db is None; when
\* _ensure_connection returned without raising, the object's db and
\* collection belong to the module's open client, never to a closed one;
\* and it raised RuntimeError when no connection was established.
C22_HandlesBelongToOpenClient ==
    /\ (_client = 0) <=> (_db = 0)
    /\ call # NoCall =>
           /\ ~ call.raised =>
                  /\ call.current # 0
                  /\ call.db = call.current
                  /\ call.collection = call.current
                  /\ call.collection \notin call.was_closed
           /\ call.current = 0 => call.raised

====
